---- MODULE Spec2Model ----
(***************************************************************************)
(* Model of the CSV ingestion and aggregation layer of the repository:     *)
(*   - src/unnamed/part_000: parseCSVWithCoordinates, the three generic    *)
(*     loaders, getUniqueLocations, calculateBounds;                       *)
(*   - src/src/routes/api/events/+server.ts: the GET handler of the        *)
(*     displacement-events endpoint.                                       *)
(*                                                                         *)
(* Representation.                                                         *)
(*   - A file is its text, a TLA+ string, with "\n" between lines and ","  *)
(*     between cells; the handlers split and parse it as the code does.    *)
(*   - A JavaScript number is a record [t, v]: t = "num" with v the value  *)
(*     in tenths (31.6 is v = 316, 100 is v = 1000), or t one of "NaN",    *)
(*     "Infinity", "-Infinity" with v = 0.  Figures and coordinates of     *)
(*     the model carry at most one decimal digit, so the tenths are exact. *)
(*   - A parsed CSV record is a function from column names to cell values  *)
(*     (strings, or numbers for the columns the cast converts).            *)
(*   - An instant (Date.getTime()) of a calendar date YYYY-MM-DD is the    *)
(*     number YYYYMMDD, which orders dates as the milliseconds do.         *)
(***************************************************************************)
EXTENDS Integers, Sequences, FiniteSets, TLC

VARIABLES
    disk,       \* the data directory: path -> [state, content]
    response,   \* what GET of /api/events returned (NoResponse before the request)
    locals,     \* the locals of the last GET: the parsed records and what was thrown
    loaded,     \* outcome of the last generic loader call
    input,      \* the record list handed to the aggregator functions
    output,     \* what the last aggregator call returned
    engine,     \* the order the JavaScript engine's sort was seen to leave an
                \* array in under a comparator that is not consistent
    earlier     \* what the GET before the last one returned

vars == <<disk, response, locals, loaded, input, output, engine, earlier>>

----------------------------------------------------------------------------
(* Strings *)

Char(s, i) == SubSeq(s, i, i)

Digits == "0123456789"

IsDigit(c) == \E i \in 1..10 : Char(Digits, i) = c

DigitVal(c) == (CHOOSE i \in 1..10 : Char(Digits, i) = c) - 1

IsWhitespace(c) == c \in {" ", "\t", "\r", "\n"}

MinOf(S) == CHOOSE x \in S : \A y \in S : x <= y

MaxOf(S) == CHOOSE x \in S : \A y \in S : x >= y

\* s from its first to its last character that is not whitespace
TrimTo(s, idx) == IF idx = {} THEN "" ELSE SubSeq(s, MinOf(idx), MaxOf(idx))

\* String.prototype.trim
Trim(s) == TrimTo(s, {i \in 1..Len(s) : ~IsWhitespace(Char(s, i))})

UpperAlphabet == "ABCDEFGHIJKLMNOPQRSTUVWXYZ"

LowerAlphabet == "abcdefghijklmnopqrstuvwxyz"

LowerChar(c) ==
    IF \E i \in 1..26 : Char(UpperAlphabet, i) = c
    THEN Char(LowerAlphabet, CHOOSE i \in 1..26 : Char(UpperAlphabet, i) = c)
    ELSE c

RECURSIVE toLowerCase(_)
\* String.prototype.toLowerCase
toLowerCase(s) ==
    IF s = "" THEN ""
    ELSE LowerChar(Char(s, 1)) \o toLowerCase(SubSeq(s, 2, Len(s)))

\* String.prototype.includes
includes(s, sub) ==
    \E i \in 1..(Len(s) + 1) :
        /\ i + Len(sub) - 1 <= Len(s)
        /\ SubSeq(s, i, i + Len(sub) - 1) = sub

RECURSIVE Split(_, _)
\* s.split(sep) when the first separator of s is at index at
SplitAt(s, sep, at) ==
    <<SubSeq(s, 1, at - 1)>> \o Split(SubSeq(s, at + 1, Len(s)), sep)

\* String.prototype.split with a one-character separator
Split(s, sep) ==
    IF \E i \in 1..Len(s) : Char(s, i) = sep
    THEN SplitAt(s, sep, MinOf({i \in 1..Len(s) : Char(s, i) = sep}))
    ELSE <<s>>

RECURSIVE Join(_, _)
\* Array.prototype.join
Join(parts, sep) ==
    IF Len(parts) = 0 THEN ""
    ELSE IF Len(parts) = 1 THEN parts[1]
    ELSE parts[1] \o sep \o Join(Tail(parts), sep)

----------------------------------------------------------------------------
(* JavaScript numbers *)

Num(n) == [t |-> "num", v |-> n]

NaN == [t |-> "NaN", v |-> 0]

PosInfinity == [t |-> "Infinity", v |-> 0]

NegInfinity == [t |-> "-Infinity", v |-> 0]

isNaN(x) == x.t = "NaN"

IsFinite(x) == x.t = "num"

\* ToBoolean of a number: 0 and NaN are falsy
NumTruthy(x) == ~isNaN(x) /\ ~(x.t = "num" /\ x.v = 0)

\* a > b
Gt(a, b) ==
    IF isNaN(a) \/ isNaN(b) THEN FALSE
    ELSE IF a.t = "Infinity" THEN b.t # "Infinity"
    ELSE IF a.t = "-Infinity" THEN FALSE
    ELSE IF b.t = "Infinity" THEN FALSE
    ELSE IF b.t = "-Infinity" THEN TRUE
    ELSE a.v > b.v

\* a + b
Add(a, b) ==
    IF isNaN(a) \/ isNaN(b) THEN NaN
    ELSE IF a.t = "num" /\ b.t = "num" THEN Num(a.v + b.v)
    ELSE IF a.t = "num" THEN b
    ELSE IF b.t = "num" THEN a
    ELSE IF a.t = b.t THEN a
    ELSE NaN

RECURSIVE MathMax(_)
\* the larger of x and rest, NaN if either is NaN
Larger(x, rest) ==
    IF isNaN(x) \/ isNaN(rest) THEN NaN
    ELSE IF Gt(rest, x) THEN rest ELSE x

\* Math.max(...xs): -Infinity for no argument, NaN if any argument is NaN
MathMax(xs) ==
    IF Len(xs) = 0 THEN NegInfinity ELSE Larger(xs[1], MathMax(Tail(xs)))

RECURSIVE MathMin(_)
\* the smaller of x and rest, NaN if either is NaN
Smaller(x, rest) ==
    IF isNaN(x) \/ isNaN(rest) THEN NaN
    ELSE IF Gt(x, rest) THEN rest ELSE x

\* Math.min(...xs): Infinity for no argument, NaN if any argument is NaN
MathMin(xs) ==
    IF Len(xs) = 0 THEN PosInfinity ELSE Smaller(xs[1], MathMin(Tail(xs)))

RECURSIVE IntVal(_)
IntVal(digs) ==
    IF digs = "" THEN 0
    ELSE IntVal(SubSeq(digs, 1, Len(digs) - 1)) * 10 + DigitVal(Char(digs, Len(digs)))

\* index just after the run of digits of s that starts at index from
DigitsEnd(s, from) ==
    MinOf({j \in from..(Len(s) + 1) : j = Len(s) + 1 \/ ~IsDigit(Char(s, j))})

\* index of the first character of s that is not whitespace
WhitespaceEnd(s) ==
    MinOf({j \in 1..(Len(s) + 1) : j = Len(s) + 1 \/ ~IsWhitespace(Char(s, j))})

\* the number read from the integer digits and the fraction digits found
DecimalValue(intDigs, frDigs, neg) ==
    IF intDigs = "" /\ frDigs = "" THEN NaN
    ELSE IF neg
    THEN Num(0 - (IntVal(intDigs) * 10
                    + (IF frDigs = "" THEN 0 ELSE DigitVal(Char(frDigs, 1)))))
    ELSE Num(IntVal(intDigs) * 10
               + (IF frDigs = "" THEN 0 ELSE DigitVal(Char(frDigs, 1))))

\* the decimal literal at index p of s, whose integer digits end before intEnd
DecimalAt(s, p, intEnd, neg) ==
    IF intEnd <= Len(s) /\ Char(s, intEnd) = "."
    THEN DecimalValue(SubSeq(s, p, intEnd - 1),
                      SubSeq(s, intEnd + 1, DigitsEnd(s, intEnd + 1) - 1), neg)
    ELSE DecimalValue(SubSeq(s, p, intEnd - 1), "", neg)

\* the literal at index p of s, after the sign
LiteralAt(s, p, neg) ==
    IF p + 7 <= Len(s) /\ SubSeq(s, p, p + 7) = "Infinity"
    THEN (IF neg THEN NegInfinity ELSE PosInfinity)
    ELSE DecimalAt(s, p, DigitsEnd(s, p), neg)

\* the signed literal at index start of s
SignedAt(s, start) ==
    IF start <= Len(s) /\ Char(s, start) \in {"+", "-"}
    THEN LiteralAt(s, start + 1, Char(s, start) = "-")
    ELSE LiteralAt(s, start, FALSE)

\* parseFloat: leading whitespace is skipped, then the longest prefix that is a
\* decimal literal is read (sign, digits, '.', digits; or Infinity); NaN when
\* there is no such prefix.  Exponents are outside the model's cell alphabet.
parseFloat(s) == SignedAt(s, WhitespaceEnd(s))

----------------------------------------------------------------------------
(* Exceptions and the file system *)

NoError == [name |-> "", message |-> ""]

Error(msg) == [name |-> "Error", message |-> msg]

Ok(v) == [threw |-> FALSE, value |-> v, error |-> NoError]

Throw(e) == [threw |-> TRUE, value |-> <<>>, error |-> e]

File(text) == [state |-> "ok", content |-> text]

\* no file at the path
Missing == [state |-> "ENOENT", content |-> ""]

\* a path that cannot be read (a directory, or no read permission)
Unreadable == [state |-> "EACCES", content |-> ""]

\* readFileSync(path, 'utf-8')
readFileSync(path) ==
    IF disk[path].state = "ok" THEN Ok(disk[path].content)
    ELSE Throw([name |-> "Error",
                message |-> disk[path].state \o ": " \o path])

----------------------------------------------------------------------------
(* csv-parse/sync, as the two call sites configure it: columns: true,       *)
(* skip_empty_lines: true, and a cast callback.  Records end at "\n", cells *)
(* at ","; the model's cells hold no quote character.                       *)

\* the context a cast callback gets: the column name for a cell under a header
\* name; for a header cell (and a cell past the last header name) context.column
\* is an index or null, which no list of column names includes
Context(name) == [named |-> TRUE, column |-> name]

NoColumn == [named |-> FALSE, column |-> ""]

ColumnIn(context, names) == context.named /\ context.column \in names

Range(f) == {f[i] : i \in DOMAIN f}

EventNumericColumns == {"latitude", "longitude", "figure", "year"}

\* isNaN(num) ? 0 : num
ZeroIfNaN(num) == IF isNaN(num) THEN Num(0) ELSE num

\* eventsCast with the generic parser's policy: a NaN is thrown
eventsCastThrowing(value, context) ==
    IF ColumnIn(context, EventNumericColumns)
    THEN (IF isNaN(parseFloat(value))
          THEN Throw(Error("Invalid numeric value \"" \o value \o "\""))
          ELSE Ok(parseFloat(value)))
    ELSE Ok(value)

\* the cast callback of the endpoint: a numeric column is read with parseFloat
\* and a NaN becomes 0; every other cell is kept as it is
eventsCast(value, context) ==
    IF ColumnIn(context, EventNumericColumns)
    THEN Ok(ZeroIfNaN(parseFloat(value)))
    ELSE Ok(value)

CoordinateColumns == <<"latitude", "longitude">>

\* genericCast with the endpoint's policy: a NaN is read as 0 instead of thrown
genericCastZero(value, context, numericColumns) ==
    IF \/ ColumnIn(context, numericColumns)
       \/ ColumnIn(context, {"latitude", "longitude"})
    THEN Ok(ZeroIfNaN(parseFloat(value)))
    ELSE Ok(Trim(value))

\* if (isNaN(num)) throw new Error(...); return num
NumberOrThrow(num, value, column) ==
    IF isNaN(num)
    THEN Throw(Error("Invalid numeric value \"" \o value
                       \o "\" in column \"" \o column \o "\""))
    ELSE Ok(num)

\* the cast callback of parseCSVWithCoordinates: a numeric or coordinate column
\* is read with parseFloat and a NaN is thrown as an error that names the value
\* and the column; every other cell is trimmed
genericCast(value, context, numericColumns) ==
    IF \/ ColumnIn(context, numericColumns)
       \/ ColumnIn(context, Range(CoordinateColumns))
    THEN NumberOrThrow(parseFloat(value), value, context.column)
    ELSE Ok(Trim(value))

\* the two cast callbacks the repository passes to parse
EventsCast == [callback |-> "events", numericColumns |-> {}]

GenericCast(numericColumns) ==
    [callback |-> "generic", numericColumns |-> numericColumns]

\* options.cast applied to a cell
cast(options, value, context) ==
    IF options.callback = "events" THEN eventsCast(value, context)
    ELSE genericCast(value, context, options.numericColumns)

FirstIn(S) == CHOOSE x \in S : \A y \in S : x <= y

\* what a list of results amounts to: the first error thrown, or the values
Collect(results) ==
    IF \E i \in 1..Len(results) : results[i].threw
    THEN Throw(results[FirstIn({i \in 1..Len(results) : results[i].threw})].error)
    ELSE Ok([i \in 1..Len(results) |-> results[i].value])

\* the cells of one line, each cast under its header name; a cell past the
\* last header name has no column
CastCells(cells, names, options) ==
    Collect([i \in 1..Len(cells) |->
               cast(options, cells[i],
                    IF i <= Len(names) THEN Context(names[i]) ELSE NoColumn)])

\* the record of the cast cells: a record with more or fewer cells than the
\* header ends the parse (CSV_RECORD_INCONSISTENT_FIELDS_LENGTH); of two
\* columns of one name the last one stays
CsvRecord(casted, names) ==
    IF casted.threw THEN casted
    ELSE IF Len(casted.value) # Len(names)
    THEN Throw([name |-> "CsvError", message |-> "Invalid Record Length"])
    ELSE Ok([c \in Range(names) |->
               casted.value[MaxOf({i \in 1..Len(names) : names[i] = c})]])

\* one record: every cell is cast, an error thrown by the cast ends the parse
CsvRow(line, names, options) ==
    CsvRecord(CastCells(Split(line, ","), names, options), names)

\* the records of the lines after the header line
CsvRecords(lines, header, options) ==
    IF header.threw THEN header
    ELSE Collect([k \in 1..(Len(lines) - 1) |->
                    CsvRow(lines[k + 1], header.value, options)])

\* the lines of a text that are not empty
NonEmptyLines(text) == SelectSeq(Split(text, "\n"), LAMBDA l : l # "")

\* the first line gives the column names (its cells are cast too, with no
\* column name), every later line one record
ParseLines(lines, options) ==
    IF Len(lines) = 0 THEN Ok(<<>>)
    ELSE CsvRecords(lines, CastCells(Split(lines[1], ","), <<>>, options), options)

\* parse(text, {columns: true, skip_empty_lines: true, cast})
parse(text, options) == ParseLines(NonEmptyLines(text), options)

----------------------------------------------------------------------------
(* Dates *)

AllDigits(s) == \A i \in 1..Len(s) : IsDigit(Char(s, i))

\* new Date(s).getTime() for the date strings of the model: the instant of an
\* ISO calendar date, NaN for anything else (an Invalid Date)
getTime(s) ==
    IF /\ Len(s) = 10
       /\ Char(s, 5) = "-" /\ Char(s, 8) = "-"
       /\ AllDigits(SubSeq(s, 1, 4)) /\ AllDigits(SubSeq(s, 6, 7))
       /\ AllDigits(SubSeq(s, 9, 10))
       /\ IntVal(SubSeq(s, 6, 7)) \in 1..12
       /\ IntVal(SubSeq(s, 9, 10)) \in 1..31
    THEN Num(IntVal(SubSeq(s, 1, 4)) * 10000 + IntVal(SubSeq(s, 6, 7)) * 100
               + IntVal(SubSeq(s, 9, 10)))
    ELSE NaN

RECURSIVE PadDigits(_, _)
\* the decimal digits of n, zero-padded to width
PadDigits(n, width) ==
    IF width = 0 THEN ""
    ELSE PadDigits(n \div 10, width - 1) \o Char(Digits, (n % 10) + 1)

\* new Date(t).toISOString().split('T')[0]
toISODate(t) ==
    PadDigits(t.v \div 10000, 4) \o "-" \o PadDigits((t.v \div 100) % 100, 2)
        \o "-" \o PadDigits(t.v % 100, 2)

----------------------------------------------------------------------------
(* Arrays *)

RECURSIVE Sum(_)
\* xs.reduce((sum, x) => sum + x, 0)
Sum(xs) ==
    IF Len(xs) = 0 THEN Num(0)
    ELSE Add(Sum(SubSeq(xs, 1, Len(xs) - 1)), xs[Len(xs)])

RECURSIVE Distinct(_)
\* [...new Set(xs)]: the distinct values in order of first occurrence
Distinct(xs) ==
    IF Len(xs) = 0 THEN <<>>
    ELSE LET front == Distinct(SubSeq(xs, 1, Len(xs) - 1))
         IN  IF xs[Len(xs)] \in Range(front) THEN front
             ELSE Append(front, xs[Len(xs)])

\* the orders of n indexes: the sequences that hold each of 1..n once
IndexOrders(n) ==
    {q \in [1..n -> 1..n] : \A i, j \in 1..n : q[i] = q[j] => i = j}

\* the array xs in the order p of its indexes
Permute(xs, p) == [i \in 1..Len(p) |-> xs[p[i]]]

----------------------------------------------------------------------------
(* The displacement-events endpoint: GET of src/routes/api/events/+server.ts *)

EventsPath == "data/event_data_pse.csv"

\* dataLinesOf as lines.slice(1): the metadata line is kept
dataLinesFromOne(lines) == SubSeq(lines, 2, Len(lines))

\* lines.slice(2): the lines from index 2 (0-based) on
dataLinesOf(lines) == SubSeq(lines, 3, Len(lines))

\* [headers, ...dataLines].join('\n')
cleanedLines(lines) == Join(<<lines[1]>> \o dataLinesOf(lines), "\n")

\* the header line followed by the data lines, joined again
cleanedCSV(csvContent) == cleanedLines(Split(csvContent, "\n"))

\* isValidRecord without the country condition
isValidRecordAnyCountry(record) ==
    /\ NumTruthy(record.latitude)
    /\ NumTruthy(record.longitude)
    /\ Gt(record.figure, Num(0))
    /\ record.displacement_date # ""

\* isValidRecord without the coordinate conditions
isValidRecordAnyPlace(record) ==
    /\ Gt(record.figure, Num(0))
    /\ record.displacement_date # ""
    /\ record.country = "Palestine"

\* `column in record`: a column the header does not name reads as undefined
Has(record, column) == column \in DOMAIN record

\* the filter of validRecords; an undefined field is falsy, is not > 0 and is
\* not === 'Palestine'
isValidRecord(record) ==
    /\ Has(record, "latitude") /\ NumTruthy(record.latitude)
    /\ Has(record, "longitude") /\ NumTruthy(record.longitude)
    /\ Has(record, "figure") /\ Gt(record.figure, Num(0))
    /\ Has(record, "displacement_date") /\ record.displacement_date # ""
    /\ Has(record, "country") /\ record.country = "Palestine"

\* record.locations_name.toLowerCase() of an undefined locations_name
TypeError ==
    [name |-> "TypeError",
     message |-> "Cannot read properties of undefined (reading 'toLowerCase')"]

\* isGaza without toLowerCase
isGazaCaseSensitive(record) == includes(record.locations_name, "gaza")

isGaza(record) == includes(toLowerCase(record.locations_name), "gaza")

isNotGaza(record) == ~isGaza(record)

figureOf(record) == record.figure

latitudeOf(record) == record.latitude

longitudeOf(record) == record.longitude

sourcesOf(record) == record.sources

combinedTypeOf(record) == record.combined_type

displacementTime(record) == getTime(record.displacement_date)

\* null in the JSON of the response
JsonNull == [t |-> "null", v |-> 0]

\* the comparator of the sort as Array.prototype.sort reads it, on the times
\* of a and b: the sign of time(b) - time(a), and 0 when that difference is
\* NaN (SortCompare)
compareDates(ta, tb) ==
    IF isNaN(ta) \/ isNaN(tb) THEN 0
    ELSE IF Gt(tb, ta) THEN 1
    ELSE IF Gt(ta, tb) THEN -1
    ELSE 0

\* the comparator is a consistent comparator on records of the times ts:
\* comparing equal is transitive.  It is not when a record with an Invalid
\* Date, which compares equal to every record, meets two records of different
\* dates.
ConsistentComparator(ts) ==
    \A i, j, k \in 1..Len(ts) :
        compareDates(ts[i], ts[j]) = 0 /\ compareDates(ts[j], ts[k]) = 0
            => compareDates(ts[i], ts[k]) = 0

\* the index order of the stable sort of records of the times ts
StableOrder(ts) ==
    [i \in 1..Len(ts) |->
        CHOOSE k \in 1..Len(ts) :
            Cardinality({j \in 1..Len(ts) :
                \/ compareDates(ts[j], ts[k]) < 0
                \/ compareDates(ts[j], ts[k]) = 0 /\ j < k}) = i - 1]

\* new Date(r.displacement_date).getTime() of every record of xs
timesOf(xs) ==
    <<>> \o [i \in 1..Len(xs) |-> displacementTime(xs[i])]

\* no sort under an inconsistent comparator has been seen yet
NotObserved == [observed |-> FALSE, order |-> <<>>]

\* the index orders a sort of records of the times ts can end in
SortOrders(ts, known) ==
    IF ConsistentComparator(ts) THEN {StableOrder(ts)}
    ELSE IF known.observed THEN {known.order}
    ELSE IndexOrders(Len(ts))

\* the sort with an order chosen anew at every call
sortAnyCall(xs, known) == SortOrders(timesOf(xs), NotObserved)

\* validRecords.sort((a, b) => time(b) - time(a)): the index orders the sort
\* by descending displacement date can leave xs in.  The sort is stable.  When
\* the comparator is not consistent the order is implementation-defined: any
\* order may result, and it is the same order (`known`) whenever the same
\* engine sorts the same array again.
sortByDateDescending(xs, known) == SortOrders(timesOf(xs), known)

\* what is known of the engine's order after it sorted xs into the order p
Observed(xs, known, p) ==
    IF known.observed \/ ConsistentComparator(timesOf(xs)) THEN known
    ELSE [observed |-> TRUE, order |-> p]

\* parsedDates without the filter: the Invalid Dates stay in the list
parsedDatesUnfiltered(validRecords) ==
    [i \in 1..Len(validRecords) |-> displacementTime(validRecords[i])]

\* the dates of the valid records that are not Invalid Date
parsedDates(validRecords) ==
    SelectSeq([i \in 1..Len(validRecords) |-> displacementTime(validRecords[i])], LAMBDA d : ~isNaN(d))

\* dates.length > 0 ? {start, end} : null
dateRange(dates) ==
    IF Len(dates) > 0
    THEN [start |-> toISODate(MathMin(dates)), end |-> toISODate(MathMax(dates))]
    ELSE JsonNull

dateRangeOf(validRecords) == dateRange(parsedDates(validRecords))

\* the box around the latitudes and the longitudes
boundsOf(lats, lngs) ==
    [north |-> MathMax(lats), south |-> MathMin(lats),
     east  |-> MathMax(lngs), west  |-> MathMin(lngs)]

\* the bounds object the handler builds from the valid records
eventBounds(validRecords) ==
    boundsOf([i \in 1..Len(validRecords) |-> latitudeOf(validRecords[i])],
             [i \in 1..Len(validRecords) |-> longitudeOf(validRecords[i])])

\* JSON.stringify of a number: a NaN or an infinity is written as null
JsonNumber(x) == IF IsFinite(x) THEN x ELSE JsonNull

JsonRecord(record) ==
    [c \in DOMAIN record |->
        IF c \in EventNumericColumns THEN JsonNumber(record[c]) ELSE record[c]]

JsonBounds(b) ==
    [north |-> JsonNumber(b.north), south |-> JsonNumber(b.south),
     east  |-> JsonNumber(b.east),  west  |-> JsonNumber(b.west)]

\* the array [0] of an empty array is undefined, and JSON.stringify leaves an
\* undefined property out: the list holds the element when there is one
FirstOf(xs) == IF Len(xs) = 0 THEN <<>> ELSE <<xs[1]>>

\* the object the handler returns.  validRecords.sort(...) sorts the array in
\* place while the object literal is built: data, which is that array, and the
\* sources and event_types computed after it see the sorted order `sorted`; the
\* two partitions, the sums, the date range and the bounds were computed before.
responseBody(validRecords, sorted, gazaEvents, westBankEvents) ==
    [success          |-> TRUE,
     data             |-> [i \in 1..Len(sorted) |-> JsonRecord(sorted[i])],
     gaza_events      |-> [i \in 1..Len(gazaEvents) |-> JsonRecord(gazaEvents[i])],
     west_bank_events |-> [i \in 1..Len(westBankEvents) |-> JsonRecord(westBankEvents[i])],
     summary |-> [
       total_events          |-> Len(validRecords),
       total_displaced       |-> JsonNumber(Sum([i \in 1..Len(validRecords) |-> figureOf(validRecords[i])])),
       gaza_displaced        |-> JsonNumber(Sum([i \in 1..Len(gazaEvents) |-> figureOf(gazaEvents[i])])),
       west_bank_displaced   |-> JsonNumber(Sum([i \in 1..Len(westBankEvents) |-> figureOf(westBankEvents[i])])),
       gaza_events_count     |-> Len(gazaEvents),
       west_bank_events_count |-> Len(westBankEvents),
       date_range            |-> dateRangeOf(validRecords),
       largest_displacement  |-> JsonNumber(MathMax([i \in 1..Len(validRecords) |-> figureOf(validRecords[i])])),
       most_recent_event     |-> [i \in 1..Len(FirstOf(sorted)) |-> JsonRecord(FirstOf(sorted)[i])]],
     bounds      |-> JsonBounds(eventBounds(validRecords)),
     sources     |-> Distinct([i \in 1..Len(sorted) |-> sourcesOf(sorted[i])]),
     event_types |-> Distinct([i \in 1..Len(sorted) |-> combinedTypeOf(sorted[i])])]

\* the success response
successResponse(validRecords, sorted) ==
    [status |-> 200,
     body |-> responseBody(validRecords, sorted,
                           SelectSeq(validRecords, isGaza),
                           SelectSeq(validRecords, isNotGaza))]

\* the catch block: the error is logged and a fixed message is returned
failureResponse ==
    [status |-> 500,
     body |-> [success |-> FALSE,
               error |-> "Failed to load displacement events data"]]

NoResponse == [status |-> 0, body |-> [success |-> FALSE, error |-> ""]]

NoLocals == [ran |-> FALSE, records |-> <<>>, thrown |-> NoError]

\* the handler caught `error` after it parsed `records`
Failed(records, error) ==
    [response |-> failureResponse,
     locals |-> [ran |-> TRUE, records |-> records, thrown |-> error],
     engine |-> engine]

\* the handler from the filter on: toLowerCase of an undefined locations_name
\* throws, otherwise the response is built around one outcome of the sort
Respond(records, validRecords) ==
    IF \E i \in 1..Len(validRecords) : ~Has(validRecords[i], "locations_name")
    THEN {Failed(records, TypeError)}
    ELSE {[response |-> successResponse(validRecords, Permute(validRecords, p)),
           locals |-> [ran |-> TRUE, records |-> records, thrown |-> NoError],
           engine |-> Observed(validRecords, engine, p)] :
             p \in sortByDateDescending(validRecords, engine)}

\* the handler after parse(cleanedCSV, ...)
Parsed(parsed) ==
    IF parsed.threw THEN {Failed(<<>>, parsed.error)}
    ELSE Respond(parsed.value, SelectSeq(parsed.value, isValidRecord))

\* the handler after readFileSync(csvPath, 'utf-8')
Read(read) ==
    IF read.threw THEN {Failed(<<>>, read.error)}
    ELSE Parsed(parse(cleanedCSV(read.value), EventsCast))

\* every (response, locals, engine) one run of the handler can end with
GETOutcomes == Read(readFileSync(EventsPath))

GET ==
    /\ \E o \in GETOutcomes :
          /\ response' = o.response
          /\ locals' = o.locals
          /\ engine' = o.engine
    /\ earlier' = response
    /\ UNCHANGED <<disk, loaded, input, output>>

----------------------------------------------------------------------------
(* Inputs of the events endpoint *)

\* most data lines a modelled events file holds
MaxRows == 3

EventHeader ==
    "country,latitude,longitude,figure,displacement_date,year,locations_name,combined_type,sources"

\* the line of HXL tags the HDX export puts under the header
EventMetadata ==
    "#country+name,#geo+lat,#geo+lon,#affected+idps,#date+displacement,#date+year,#loc+name,#event+type,#meta+source"

\* the lines a modelled events file draws its data lines from: valid records of
\* both regions, one record failing each validity condition, a record with a
\* date that does not parse, a non-numeric figure, a non-numeric year, a line
\* with too few cells, and an empty line
EventLines == {
    "Palestine,31.5,34.4,100,2023-10-07,2023,Gaza City Shelter,Conflict,OCHA",
    "Palestine,31.9,35.2,250,2023-10-09,2023,Ramallah Center,Conflict,UNRWA",
    "Palestine,31.3,34.2,0,2023-10-08,2023,Rafah,Conflict,OCHA",
    "Israel,31.2,34.7,50,2023-10-08,2023,Beersheba,Conflict,OCHA",
    "Palestine,abc,34.4,70,2023-10-08,2023,Gaza,Conflict,OCHA",
    "Palestine,31.4,,30,2023-10-08,2023,Jenin,Conflict,OCHA",
    "Palestine,31.4,34.3,40,,2023,Khan Younis,Conflict,OCHA",
    "Palestine,31.6,34.5,60,n/a,2023,North GAZA,Disaster,IDMC",
    "Palestine,31.4,34.3,many,2023-10-08,2023,Khan Younis,Conflict,OCHA",
    "Palestine,31.2,34.2,80,2023-10-06,unknown,Rafah Crossing,Conflict,OCHA",
    "Palestine,31.5",
    "" }

SeqsUpTo(S, n) == UNION {[1..k -> S] : k \in 0..n}

EventFiles ==
    {Missing, Unreadable, File(""), File(EventHeader)}
        \cup {File(Join(<<EventHeader, EventMetadata>> \o rows, "\n")) :
                 rows \in SeqsUpTo(EventLines, MaxRows)}

Datasets == {"casualties", "infrastructure", "displacement"}

DataPath(dataset) == "data/" \o dataset \o ".csv"

Paths == {EventsPath} \cup {DataPath(d) : d \in Datasets}

----------------------------------------------------------------------------
(* The generic parser and the three loaders of src/unnamed/part_000 *)

\* a >= b
Ge(a, b) == ~isNaN(a) /\ ~isNaN(b) /\ ~Gt(b, a)

validateCoordinates(lat, lng) ==
    /\ Ge(lat, Num(310)) /\ Ge(Num(320), lat)
    /\ Ge(lng, Num(340)) /\ Ge(Num(350), lng)

\* the warning console.warn prints for a record whose coordinates fail validation
CoordinateWarning(record) ==
    [location |-> record.location,
     latitude |-> record[CoordinateColumns[1]],
     longitude |-> record[CoordinateColumns[2]]]

\* if (!validateCoordinates(record.latitude, record.longitude)) console.warn(...)
warned(record) ==
    /\ \A col \in Range(CoordinateColumns) : col \in DOMAIN record
    /\ ~validateCoordinates(record[CoordinateColumns[1]],
                            record[CoordinateColumns[2]])

\* the warnings printed for the records that fail the validation, in order
Warnings(invalid) == [i \in 1..Len(invalid) |-> CoordinateWarning(invalid[i])]

\* MapRecords that leaves out the records that fail the validation
MapRecordsValidOnly(records) ==
    [threw |-> records.threw,
     value |-> IF records.threw THEN records.value
               ELSE SelectSeq(records.value, LAMBDA r : ~warned(r)),
     error |-> records.error,
     warnings |-> IF records.threw THEN <<>>
                  ELSE Warnings(SelectSeq(records.value, warned))]

\* records.map(...): every record is returned, a warning is printed for some
MapRecords(records) ==
    [threw |-> records.threw, value |-> records.value, error |-> records.error,
     warnings |-> IF records.threw THEN <<>>
                  ELSE Warnings(SelectSeq(records.value, warned))]

\* [threw, value, error] as for parse, and the warnings printed while mapping
parseCSVWithCoordinates(csvContent, numericColumns) ==
    MapRecords(parse(csvContent, GenericCast(numericColumns)))

NumericColumns(dataset) ==
    IF dataset = "casualties"
    THEN {"killed", "injured", "children_killed", "women_killed",
          "latitude", "longitude"}
    ELSE IF dataset = "infrastructure"
    THEN {"hospitals_damaged", "schools_damaged", "homes_destroyed",
          "latitude", "longitude"}
    ELSE {"people_displaced", "displacement_centers", "capacity",
          "latitude", "longitude"}

\* the message of the error a loader's catch block throws
LoadFailure(dataset) == Error("Failed to load " \o dataset \o " data")

\* parseCSVWithCoordinates of what readFileSync returned, or the error it threw
ParseRead(read, numericColumns) ==
    IF read.threw
    THEN [threw |-> TRUE, value |-> <<>>, error |-> read.error, warnings |-> <<>>]
    ELSE parseCSVWithCoordinates(read.value, numericColumns)

\* the try block of a loader: read the dataset's file and parse it
TryLoad(dataset) ==
    ParseRead(readFileSync(DataPath(dataset)), NumericColumns(dataset))

\* a catch block that throws the error it caught
Rethrow(name, tried) ==
    [called |-> name, threw |-> tried.threw, value |-> tried.value,
     error |-> tried.error, logged |-> tried.error, warnings |-> tried.warnings]

\* the catch block of a loader: the error is logged (console.error) and the
\* loader's own error is thrown in its place
Catch(name, dataset, tried) ==
    IF tried.threw
    THEN [called |-> name, threw |-> TRUE, value |-> <<>>,
          error |-> LoadFailure(dataset), logged |-> tried.error,
          warnings |-> <<>>]
    ELSE [called |-> name, threw |-> FALSE, value |-> tried.value,
          error |-> NoError, logged |-> NoError, warnings |-> tried.warnings]

\* loadData with a catch block that throws the error it caught
loadDataRethrow(name, dataset) == Rethrow(name, TryLoad(dataset))

\* the body the three loaders share
loadData(name, dataset) == Catch(name, dataset, TryLoad(dataset))

loadCasualtiesData ==
    /\ loaded' = loadData("loadCasualtiesData", "casualties")
    /\ UNCHANGED <<disk, response, locals, input, output, engine, earlier>>

loadInfrastructureData ==
    /\ loaded' = loadData("loadInfrastructureData", "infrastructure")
    /\ UNCHANGED <<disk, response, locals, input, output, engine, earlier>>

loadDisplacementData ==
    /\ loaded' = loadData("loadDisplacementData", "displacement")
    /\ UNCHANGED <<disk, response, locals, input, output, engine, earlier>>

----------------------------------------------------------------------------
(* The aggregator functions of src/unnamed/part_000 *)

\* the Map key of a record
locationKey(record) == record.location \o "-" \o record.area

\* the records that put a new key into the Map, each copied to the four
\* geographic fields, in insertion order
getUniqueLocationsOf(records) ==
    LET first == {i \in 1..Len(records) :
                     \A j \in 1..(i - 1) :
                         locationKey(records[j]) # locationKey(records[i])}
        Nth(k) == CHOOSE i \in first : Cardinality({j \in first : j < i}) = k - 1
    IN  [k \in 1..Cardinality(first) |->
            [latitude  |-> records[Nth(k)].latitude,
             longitude |-> records[Nth(k)].longitude,
             location  |-> records[Nth(k)].location,
             area      |-> records[Nth(k)].area]]

DefaultBounds ==
    [north |-> Num(316), south |-> Num(312), east |-> Num(345), west |-> Num(342)]

\* calculateBounds without the empty-list case
calculateBoundsNoDefault(records) ==
    [north |-> MathMax([i \in 1..Len(records) |-> latitudeOf(records[i])]),
     south |-> MathMin([i \in 1..Len(records) |-> latitudeOf(records[i])]),
     east  |-> MathMax([i \in 1..Len(records) |-> longitudeOf(records[i])]),
     west  |-> MathMin([i \in 1..Len(records) |-> longitudeOf(records[i])])]

calculateBoundsOf(records) ==
    IF Len(records) = 0 THEN DefaultBounds
    ELSE [north |-> MathMax([i \in 1..Len(records) |-> latitudeOf(records[i])]),
          south |-> MathMin([i \in 1..Len(records) |-> latitudeOf(records[i])]),
          east  |-> MathMax([i \in 1..Len(records) |-> longitudeOf(records[i])]),
          west  |-> MathMin([i \in 1..Len(records) |-> longitudeOf(records[i])])]

getUniqueLocations ==
    /\ output' = [called |-> "getUniqueLocations", value |-> getUniqueLocationsOf(input)]
    /\ UNCHANGED <<disk, response, locals, loaded, input, engine, earlier>>

calculateBounds ==
    /\ output' = [called |-> "calculateBounds", value |-> calculateBoundsOf(input)]
    /\ UNCHANGED <<disk, response, locals, loaded, input, engine, earlier>>

----------------------------------------------------------------------------
(* Inputs of the generic loaders and of the aggregator *)

DataHeader(dataset) ==
    IF dataset = "casualties"
    THEN "date,killed,injured,children_killed,women_killed,latitude,longitude,location,area,source"
    ELSE IF dataset = "infrastructure"
    THEN "date,hospitals_damaged,schools_damaged,homes_destroyed,latitude,longitude,location,area,type"
    ELSE "date,people_displaced,displacement_centers,capacity,latitude,longitude,location,area"

\* a data line of a dataset's file: `first` is the cell of its first numeric
\* column, the other count columns hold small numbers
DataLine(dataset, first, lat, lng, location, area) ==
    IF dataset = "casualties"
    THEN Join(<<"2023-10-07", first, "5", "1", "2", lat, lng, location, area, "MoH">>, ",")
    ELSE IF dataset = "infrastructure"
    THEN Join(<<"2023-10-07", first, "1", "40", lat, lng, location, area, "hospital">>, ",")
    ELSE Join(<<"2023-10-07", first, "2", "900", lat, lng, location, area>>, ",")

\* the lines a modelled dataset file draws its data lines from: well-formed
\* rows, rows with a cell parseFloat reads no number from (in a count column and
\* in a coordinate column), a cell with a numeric prefix, coordinates outside
\* the validation box, a line with too few cells, and an empty line
DataLines(dataset) == {
    DataLine(dataset, "12", "31.5", "34.4", "Gaza City", "North Gaza"),
    DataLine(dataset, "7", "31.3", "34.2", " Rafah ", "South Gaza"),
    DataLine(dataset, "abc", "31.4", "34.3", "Khan Younis", "South Gaza"),
    DataLine(dataset, "3", "", "34.4", "Jabalia", "North Gaza"),
    DataLine(dataset, "12abc", "31.4", "34.3", "Deir al-Balah", "Central Gaza"),
    DataLine(dataset, "4", "33.0", "35.5", "Beirut", "Lebanon"),
    "2023-10-07,9",
    "" }

\* most data lines a modelled dataset file holds
MaxDataRows == 2

DataFiles(dataset) ==
    {Missing, Unreadable, File("")}
        \cup {File(Join(<<DataHeader(dataset)>> \o rows, "\n")) :
                 rows \in SeqsUpTo(DataLines(dataset), MaxDataRows)}

\* most records of a list handed to the aggregator functions
MaxRecords == 3

Coordinates == {<<Num(314), Num(343)>>, <<Num(315), Num(344)>>}

\* parsed records as the aggregator reads them; "Deir al-Balah" is a location
\* of the repository's coordinate table
GeographicData ==
    {[latitude |-> c[1], longitude |-> c[2], location |-> l, area |-> a] :
        c \in Coordinates,
        l \in {"Deir al-Balah", "Deir al"},
        a \in {"Central Gaza", "Balah-Central Gaza"}}

----------------------------------------------------------------------------
(* Specifications *)

NotLoaded ==
    [called |-> "", threw |-> FALSE, value |-> <<>>, error |-> NoError,
     logged |-> NoError, warnings |-> <<>>]

NoOutput == [called |-> "", value |-> <<>>]

\* the events endpoint: the events file holds any modelled content
Init ==
    /\ \E f \in EventFiles :
          disk = [p \in Paths |-> IF p = EventsPath THEN f ELSE Missing]
    /\ response = NoResponse
    /\ locals = NoLocals
    /\ loaded = NotLoaded
    /\ input = <<>>
    /\ output = NoOutput
    /\ engine = NotObserved
    /\ earlier = NoResponse

Next == GET

Spec == Init /\ [][Next]_vars

\* the generic loaders: one dataset's file holds any modelled content
InitLoad ==
    /\ \E d \in Datasets : \E f \in DataFiles(d) :
          disk = [p \in Paths |-> IF p = DataPath(d) THEN f ELSE Missing]
    /\ response = NoResponse
    /\ locals = NoLocals
    /\ loaded = NotLoaded
    /\ input = <<>>
    /\ output = NoOutput
    /\ engine = NotObserved
    /\ earlier = NoResponse

NextLoad ==
    \/ loadCasualtiesData
    \/ loadInfrastructureData
    \/ loadDisplacementData

SpecLoad == InitLoad /\ [][NextLoad]_vars

\* the aggregator: the functions are applied to any modelled record list
InitAgg ==
    /\ disk = [p \in Paths |-> Missing]
    /\ response = NoResponse
    /\ locals = NoLocals
    /\ loaded = NotLoaded
    /\ input \in SeqsUpTo(GeographicData, MaxRecords)
    /\ output = NoOutput
    /\ engine = NotObserved
    /\ earlier = NoResponse

NextAgg ==
    \/ getUniqueLocations
    \/ calculateBounds

SpecAgg == InitAgg /\ [][NextAgg]_vars

\* the loader boundary: every path is missing, unreadable, or holds a good file
\* or a file the parser or the handler fails on
FaultFiles(path) ==
    IF path = EventsPath
    THEN {Missing, Unreadable,
          File(Join(<<EventHeader, EventMetadata,
                      "Palestine,31.5,34.4,100,2023-10-07,2023,Gaza City Shelter,Conflict,OCHA">>,
                    "\n")),
          File(Join(<<EventHeader, EventMetadata,
                      "Palestine,31.5,34.4,100,2023-10-07,2023,Gaza City Shelter,Conflict,OCHA",
                      "Palestine,31.5">>, "\n")),
          File(Join(<<"country,latitude,longitude,figure,displacement_date",
                      "#country+name,#geo+lat,#geo+lon,#affected+idps,#date+displacement",
                      "Palestine,31.5,34.4,100,2023-10-07">>, "\n"))}
    ELSE LET dataset == CHOOSE d \in Datasets : DataPath(d) = path
         IN  {Missing, Unreadable,
              File(Join(<<DataHeader(dataset),
                          DataLine(dataset, "12", "31.5", "34.4", "Gaza City", "North Gaza")>>,
                        "\n")),
              File(Join(<<DataHeader(dataset),
                          DataLine(dataset, "12", "31.5", "34.4", "Gaza City", "North Gaza"),
                          DataLine(dataset, "abc", "31.4", "34.3", "Khan Younis", "South Gaza")>>,
                        "\n")),
              File(Join(<<DataHeader(dataset),
                          DataLine(dataset, "12", "31.5", "34.4", "Gaza City", "North Gaza"),
                          "2023-10-07,9">>, "\n"))}

InitFaults ==
    /\ disk \in {d \in [Paths -> UNION {FaultFiles(p) : p \in Paths}] :
                    \A p \in Paths : d[p] \in FaultFiles(p)}
    /\ response = NoResponse
    /\ locals = NoLocals
    /\ loaded = NotLoaded
    /\ input = <<>>
    /\ output = NoOutput
    /\ engine = NotObserved
    /\ earlier = NoResponse

NextFaults ==
    \/ GET
    \/ loadCasualtiesData
    \/ loadInfrastructureData
    \/ loadDisplacementData

SpecFaults == InitFaults /\ [][NextFaults]_vars

----------------------------------------------------------------------------
(* Properties *)

\* the dataset a loader reads, by the loader's name
DatasetOf(name) ==
    IF name = "loadCasualtiesData" THEN "casualties"
    ELSE IF name = "loadInfrastructureData" THEN "infrastructure"
    ELSE "displacement"

\* the non-empty lines of a text
TextLines(text) == SelectSeq(Split(text, "\n"), LAMBDA l : l # "")

\* cell i of the line sits under a header name of the set columns
UnderColumn(header, i, columns) ==
    /\ i <= Len(Split(header, ","))
    /\ Trim(Split(header, ",")[i]) \in columns

\* some data row of the text holds, under one of the columns, a cell no number
\* can be read from
HasNonNumericCell(text, columns) ==
    LET lines == TextLines(text)
    IN  \E k \in 2..Len(lines) :
          \E i \in 1..Len(Split(lines[k], ",")) :
              /\ UnderColumn(lines[1], i, columns)
              /\ isNaN(parseFloat(Split(lines[k], ",")[i]))

\* some data row of the text has a cell for every header name, and a number in
\* every cell under one of the columns
HasWellFormedRow(text, columns) ==
    LET lines == TextLines(text)
    IN  \E k \in 2..Len(lines) :
          /\ Len(Split(lines[k], ",")) = Len(Split(lines[1], ","))
          /\ \A i \in 1..Len(Split(lines[k], ",")) :
                UnderColumn(lines[1], i, columns)
                    => ~isNaN(parseFloat(Split(lines[k], ",")[i]))

\* some data row of the text has more or fewer cells than the header
HasRaggedRow(text) ==
    LET lines == TextLines(text)
    IN  \E k \in 2..Len(lines) :
          Len(Split(lines[k], ",")) # Len(Split(lines[1], ","))

\* the file a loader call read
LoadedFile == disk[DataPath(DatasetOf(loaded.called))]

FailureMessage(dataset) ==
    IF dataset = "casualties" THEN "Failed to load casualties data"
    ELSE IF dataset = "infrastructure" THEN "Failed to load infrastructure data"
    ELSE "Failed to load displacement data"

\* the events file as the endpoint parses it: line 0 and the lines from 2 on
EventsParsedText ==
    LET lines == Split(disk[EventsPath].content, "\n")
    IN  Join(<<lines[1]>> \o SubSeq(lines, 3, Len(lines)), "\n")

\* C2: every failure at a loader boundary ends in the uniform outcome.  A
\* generic loader that throws, throws exactly 'Failed to load <dataset> data',
\* and it does throw when the file is missing or unreadable or the parser
\* fails (a non-numeric cell, a row of the wrong length).  The events handler
\* always returns a response; when the file is missing or unreadable, a row has
\* the wrong length, or anything was thrown inside it, the response is status
\* 500 with { success: false, error: 'Failed to load displacement events data' }.
C2_UniformLoadFailure ==
    /\ loaded.called # "" =>
          /\ loaded.threw =>
                /\ loaded.error
                      = [name |-> "Error",
                         message |-> FailureMessage(DatasetOf(loaded.called))]
                /\ loaded.value = <<>>
          /\ (\/ LoadedFile.state # "ok"
              \/ HasRaggedRow(LoadedFile.content)
              \/ HasNonNumericCell(LoadedFile.content,
                                   NumericColumns(DatasetOf(loaded.called))))
                => loaded.threw
          /\ loaded.logged # NoError => loaded.threw
    /\ locals.ran =>
          /\ response.status \in {200, 500}
          /\ response.status = 200 <=> response.body.success
          /\ (\/ disk[EventsPath].state # "ok"
              \/ HasRaggedRow(EventsParsedText)
              \/ locals.thrown # NoError)
                => response = [status |-> 500,
                               body |-> [success |-> FALSE,
                                         error |-> "Failed to load displacement events data"]]

\* C2 witness: a loader failed on a parser error and the events handler
\* answered a missing file with the 500 response.
C2_Witness ==
    /\ loaded.called = "loadDisplacementData"
    /\ LoadedFile.state = "ok"
    /\ loaded.threw
    /\ loaded.logged.message # loaded.error.message
    /\ locals.ran
    /\ disk[EventsPath].state = "ENOENT"
    /\ response.status = 500

\* the lines of the events file from index 2 on that are not empty
EventDataLines ==
    SelectSeq(SubSeq(Split(disk[EventsPath].content, "\n"), 3,
                     Len(Split(disk[EventsPath].content, "\n"))),
              LAMBDA l : l # "")

\* the events file starts with the header line and the metadata line
HasHeaderAndMetadata ==
    /\ disk[EventsPath].state = "ok"
    /\ Len(Split(disk[EventsPath].content, "\n")) >= 2
    /\ Split(disk[EventsPath].content, "\n")[1] = EventHeader
    /\ Split(disk[EventsPath].content, "\n")[2] = EventMetadata

\* C3: when the events file loads, the parsed records are exactly the lines
\* after line index 1, one record per non-empty line and in their order; line 0
\* gives the column names and the metadata line is no record.
C3_MetadataLineDropped ==
    (locals.ran /\ HasHeaderAndMetadata /\ response.body.success)
    => /\ Len(locals.records) = Len(EventDataLines)
       /\ \A k \in 1..Len(locals.records) :
             /\ DOMAIN locals.records[k] = Range(Split(EventHeader, ","))
             /\ locals.records[k].country = Split(EventDataLines[k], ",")[1]
             /\ locals.records[k].locations_name = Split(EventDataLines[k], ",")[7]
             /\ locals.records[k].country # Split(EventMetadata, ",")[1]

\* C3 witness: a file of header, metadata line and 3 data rows gave 3 records.
C3_Witness ==
    /\ locals.ran /\ HasHeaderAndMetadata /\ response.body.success
    /\ Len(Split(disk[EventsPath].content, "\n")) = 5
    /\ Len(EventDataLines) = 3
    /\ Len(locals.records) = 3

\* the events handler ran and answered with the success response
Succeeded == locals.ran /\ response.status = 200 /\ response.body.success

\* the validity conditions of a parsed record, as the specification words them
MeetsValidity(record) ==
    /\ record.latitude # Num(0)
    /\ record.longitude # Num(0)
    /\ record.figure.t = "num" /\ record.figure.v > 0
    /\ Len(record.displacement_date) > 0
    /\ record.country = "Palestine"

\* how many times x occurs in the list xs
Count(xs, x) == Cardinality({i \in 1..Len(xs) : xs[i] = x})

\* C4: in a success response a parsed record is in data exactly when its
\* latitude and longitude are truthy, its figure is greater than 0, its
\* displacement_date is not empty and its country is 'Palestine' (as often as
\* the file holds it), and no record failing a condition is in data,
\* gaza_events or west_bank_events.
C4_DataIsTheValidRecords ==
    Succeeded
    => /\ \A k \in 1..Len(locals.records) :
             LET r == locals.records[k]
             IN  /\ MeetsValidity(r) <=> r \in Range(response.body.data)
                 /\ MeetsValidity(r) =>
                       Count(response.body.data, r) = Count(locals.records, r)
       /\ \A r \in Range(response.body.data)
                     \cup Range(response.body.gaza_events)
                     \cup Range(response.body.west_bank_events) :
             MeetsValidity(r) /\ r \in Range(locals.records)

\* C4 witness: a success response for a file with a valid record and a record
\* of another country.
C4_Witness ==
    /\ Succeeded
    /\ Len(response.body.data) >= 1
    /\ \E k \in 1..Len(locals.records) :
          /\ locals.records[k].country = "Israel"
          /\ NumTruthy(locals.records[k].latitude)
          /\ locals.records[k].figure.v > 0

\* the location name contains 'gaza' in any letter case
NamesGaza(record) ==
    \E i \in 1..Len(record.locations_name) :
       /\ i + 3 <= Len(record.locations_name)
       /\ Char(record.locations_name, i) \in {"g", "G"}
       /\ Char(record.locations_name, i + 1) \in {"a", "A"}
       /\ Char(record.locations_name, i + 2) \in {"z", "Z"}
       /\ Char(record.locations_name, i + 3) \in {"a", "A"}

\* C5: gaza_events and west_bank_events partition data: every record of data
\* is in exactly one of them, in gaza_events exactly when its locations_name
\* contains 'gaza' in any letter case, and the two groups hold nothing else.
C5_RegionsPartitionData ==
    Succeeded
    => /\ \A r \in Range(response.body.data) :
             /\ NamesGaza(r) <=> r \in Range(response.body.gaza_events)
             /\ ~NamesGaza(r) <=> r \in Range(response.body.west_bank_events)
             /\ Count(response.body.gaza_events, r)
                  + Count(response.body.west_bank_events, r)
                  = Count(response.body.data, r)
       /\ Range(response.body.gaza_events) \cup Range(response.body.west_bank_events)
             \subseteq Range(response.body.data)
       /\ Range(response.body.gaza_events) \cap Range(response.body.west_bank_events)
             = {}

\* C5 witness: 'Gaza City Shelter' is in gaza_events and 'Ramallah Center' in
\* west_bank_events of one response.
C5_Witness ==
    /\ Succeeded
    /\ \E r \in Range(response.body.gaza_events) :
          r.locations_name = "Gaza City Shelter"
    /\ \E r \in Range(response.body.west_bank_events) :
          r.locations_name = "Ramallah Center"

RECURSIVE ValidFigureTotal(_)
\* the sum, in tenths, of figure over the records meeting the validity conditions
ValidFigureTotal(records) ==
    IF Len(records) = 0 THEN 0
    ELSE ValidFigureTotal(Tail(records))
           + (IF MeetsValidity(records[1]) THEN records[1].figure.v ELSE 0)

\* C6: summary.total_displaced is the sum of figure over the valid records
\* only.
C6_TotalDisplacedOverValid ==
    Succeeded
    => response.body.summary.total_displaced
          = Num(ValidFigureTotal(locals.records))

\* C6 witness: a file whose three rows have figures 100, 0 and 50, the 50 under
\* another country: the total is 100.
C6_Witness ==
    /\ Succeeded
    /\ Len(locals.records) = 3
    /\ \E i, j, k \in 1..3 :
          /\ locals.records[i].figure = Num(1000)
          /\ locals.records[j].figure = Num(0)
          /\ locals.records[k].country = "Israel"
          /\ locals.records[k].figure = Num(500)
    /\ response.body.summary.total_displaced = Num(1000)

\* C8 as claimed: when the events file loads and no record is valid, bounds is
\* the default region box of four finite numbers.
C8_EmptyBoundsAreDefault ==
    (Succeeded /\ Len(response.body.data) = 0)
    => response.body.bounds
          = [north |-> Num(316), south |-> Num(312),
             east |-> Num(345), west |-> Num(342)]

\* C7: calculateBounds of an empty list is the default box north 31.6,
\* south 31.2, east 34.5, west 34.2, four finite numbers.
C7_EmptyBoundsDefault ==
    (output.called = "calculateBounds" /\ Len(input) = 0)
    => /\ output.value
             = [north |-> Num(316), south |-> Num(312),
                east |-> Num(345), west |-> Num(342)]
       /\ \A side \in {"north", "south", "east", "west"} :
             output.value[side].t = "num"

\* C7 witness: calculateBounds was applied to the empty list.
C7_Witness ==
    /\ output.called = "calculateBounds"
    /\ input = <<>>
    /\ output.value.north = Num(316)

\* the entries of a result for the pair of a record
EntriesFor(result, record) ==
    {k \in 1..Len(result) :
        result[k].location = record.location /\ result[k].area = record.area}

\* C9 as claimed: when two or more records of the input share (location, area),
\* the result holds exactly one entry for that pair, with the latitude and
\* longitude of the first such record.
C9_FirstSeenCoordinates ==
    output.called = "getUniqueLocations"
    => \A i, j \in 1..Len(input) :
          (/\ i < j
           /\ input[i].location = input[j].location
           /\ input[i].area = input[j].area
           /\ \A h \in 1..(i - 1) :
                 ~(input[h].location = input[i].location
                     /\ input[h].area = input[i].area))
          => /\ Cardinality(EntriesFor(output.value, input[i])) = 1
             /\ \A k \in EntriesFor(output.value, input[i]) :
                   /\ output.value[k].latitude = input[i].latitude
                   /\ output.value[k].longitude = input[i].longitude

\* C10 as claimed: the result has exactly one entry for every distinct
\* (location, area) pair of the input.
C10_OneEntryPerPair ==
    output.called = "getUniqueLocations"
    => /\ \A i \in 1..Len(input) :
             Cardinality(EntriesFor(output.value, input[i])) = 1
       /\ Len(output.value)
             = Cardinality({<<input[i].location, input[i].area>> :
                               i \in 1..Len(input)})

\* the data rows of the file a loader call read: its non-empty lines after the
\* header line
LoadedRows ==
    IF Len(TextLines(LoadedFile.content)) = 0 THEN <<>>
    ELSE Tail(TextLines(LoadedFile.content))

\* the cell of a data row under the header name column
CellUnder(row, column) ==
    Split(row, ",")[CHOOSE i \in 1..Len(Split(Head(TextLines(LoadedFile.content)), ",")) :
                       Split(Head(TextLines(LoadedFile.content)), ",")[i] = column]

\* the coordinates lie outside the box 31.0 <= lat <= 32.0, 34.0 <= lng <= 35.0
OutsideBox(lat, lng) ==
    \/ lat.t # "num" \/ lat.v < 310 \/ lat.v > 320
    \/ lng.t # "num" \/ lng.v < 340 \/ lng.v > 350

\* the data rows of the loaded file whose coordinates lie outside the box
RowsOutsideBox ==
    SelectSeq(LoadedRows,
              LAMBDA row : OutsideBox(parseFloat(CellUnder(row, "latitude")),
                                      parseFloat(CellUnder(row, "longitude"))))

\* C11: coordinate validation never blocks parsing.  When a generic loader
\* reads a file whose rows all have the header's length and numbers in the
\* numeric columns, the load succeeds whatever the coordinates are: it returns
\* one record per data row, in order and with the row's values (the numbers of
\* the coordinate cells, the trimmed location), and exactly the rows whose
\* latitude or longitude lies outside the box 31.0..32.0 / 34.0..35.0 produce
\* a warning each, naming the location.
C11_ValidationOnlyWarns ==
    (/\ loaded.called # ""
     /\ LoadedFile.state = "ok"
     /\ ~HasRaggedRow(LoadedFile.content)
     /\ ~HasNonNumericCell(LoadedFile.content,
                           NumericColumns(DatasetOf(loaded.called))))
    => /\ ~loaded.threw
       /\ Len(loaded.value) = Len(LoadedRows)
       /\ \A k \in 1..Len(LoadedRows) :
             /\ loaded.value[k].latitude = parseFloat(CellUnder(LoadedRows[k], "latitude"))
             /\ loaded.value[k].longitude = parseFloat(CellUnder(LoadedRows[k], "longitude"))
             /\ loaded.value[k].location = Trim(CellUnder(LoadedRows[k], "location"))
             /\ loaded.value[k].area = CellUnder(LoadedRows[k], "area")
       /\ Len(loaded.warnings) = Len(RowsOutsideBox)
       /\ \A k \in 1..Len(RowsOutsideBox) :
             loaded.warnings[k].location = Trim(CellUnder(RowsOutsideBox[k], "location"))

\* C11 witness: a file of two rows, one of them with coordinates outside the
\* box, was loaded: two records were returned and one warning was printed.
C11_Witness ==
    /\ loaded.called = "loadInfrastructureData"
    /\ LoadedFile.state = "ok"
    /\ ~loaded.threw
    /\ Len(LoadedRows) = 2
    /\ Len(RowsOutsideBox) = 1
    /\ Len(loaded.value) = 2
    /\ Len(loaded.warnings) = 1
    /\ \E k \in 1..2 : loaded.value[k].latitude = Num(330)

ParseableDates ==
    {r.displacement_date : r \in {x \in Range(response.body.data) :
                                     getTime(x.displacement_date).t = "num"}}

\* the calendar date d is no later than the calendar date e
NoLater(d, e) == getTime(d).v <= getTime(e).v

\* C13: in a success response date_range covers the valid records whose
\* displacement_date parses: start is the earliest of these dates and end the
\* latest, so start is no later than end; date_range is null when no valid
\* record has a date that parses; and a request whose file holds a valid
\* record with a date that does not parse is answered with success.
C13_DateRangeOverParseableDates ==
    /\ Succeeded =>
          IF ParseableDates = {}
          THEN response.body.summary.date_range = JsonNull
          ELSE /\ response.body.summary.date_range.start \in ParseableDates
               /\ response.body.summary.date_range.end \in ParseableDates
               /\ \A d \in ParseableDates :
                     /\ NoLater(response.body.summary.date_range.start, d)
                     /\ NoLater(d, response.body.summary.date_range.end)
               /\ NoLater(response.body.summary.date_range.start,
                          response.body.summary.date_range.end)
    /\ (/\ locals.ran
        /\ \E k \in 1..Len(locals.records) :
              /\ MeetsValidity(locals.records[k])
              /\ getTime(locals.records[k].displacement_date).t # "num")
       => Succeeded

\* C13 witness: a success response whose data holds a record with a date that
\* does not parse and two records of different dates.
C13_Witness ==
    /\ Succeeded
    /\ \E r \in Range(response.body.data) : getTime(r.displacement_date).t # "num"
    /\ Cardinality(ParseableDates) = 2
    /\ response.body.summary.date_range # JsonNull
    /\ response.body.summary.date_range.start # response.body.summary.date_range.end

\* C14 as claimed: in a success response with at least one valid record,
\* most_recent_event is a record of data; when some valid record has a date
\* that parses, the date of most_recent_event parses too, is no earlier than
\* the date of every such record, and is date_range.end -- also when other
\* valid records carry a date that does not parse.
C14_MostRecentEventIsLatest ==
    (Succeeded /\ Len(response.body.data) > 0)
    => /\ Len(response.body.summary.most_recent_event) = 1
       /\ response.body.summary.most_recent_event[1] \in Range(response.body.data)
       /\ ParseableDates # {} =>
             /\ response.body.summary.most_recent_event[1].displacement_date
                   \in ParseableDates
             /\ \A d \in ParseableDates :
                   NoLater(d, response.body.summary.most_recent_event[1].displacement_date)
             /\ response.body.summary.most_recent_event[1].displacement_date
                   = response.body.summary.date_range.end

\* the parsed records that meet the validity conditions, in file order
ValidInFileOrder == SelectSeq(locals.records, MeetsValidity)

RECURSIVE DistinctInOrder(_)
\* the distinct values of a list in order of first occurrence
DistinctInOrder(xs) ==
    IF Len(xs) = 0 THEN <<>>
    ELSE <<Head(xs)>> \o SelectSeq(DistinctInOrder(Tail(xs)), LAMBDA x : x # Head(xs))

\* C15 as claimed: building the summary leaves the valid record list as it
\* was.  In a success response data lists the valid records in the order of
\* the file, gaza_events and west_bank_events are the records of data of their
\* region in the order of data, and sources and event_types list the distinct
\* values in the order of the file.
C15_DataKeepsFileOrder ==
    Succeeded
    => /\ response.body.data = ValidInFileOrder
       /\ response.body.gaza_events = SelectSeq(response.body.data, NamesGaza)
       /\ response.body.west_bank_events
             = SelectSeq(response.body.data, LAMBDA r : ~NamesGaza(r))
       /\ response.body.sources
             = DistinctInOrder([i \in 1..Len(ValidInFileOrder) |->
                                   ValidInFileOrder[i].sources])
       /\ response.body.event_types
             = DistinctInOrder([i \in 1..Len(ValidInFileOrder) |->
                                   ValidInFileOrder[i].combined_type])

\* the column names of the events file
EventColumns == Split(EventHeader, ",")

\* the cell of the cells of a line under the header name column
EventCell(cells, column) ==
    cells[CHOOSE i \in 1..Len(EventColumns) : EventColumns[i] = column]

\* the cells of the data rows of the events file
EventRows ==
    <<>> \o [k \in 1..Len(EventDataLines) |-> Split(EventDataLines[k], ",")]

\* no number can be read from the cell under the column
NonNumeric(cells, column) == parseFloat(EventCell(cells, column)).t = "NaN"

\* a number other than 0 can be read from the cell
ReadsNonZero(cell) == parseFloat(cell).t = "num" /\ parseFloat(cell).v # 0

\* the cells are a valid row: a number other than 0 in latitude and longitude,
\* a number greater than 0 in figure, a date, and the country 'Palestine'
ValidRow(cells) ==
    /\ ReadsNonZero(EventCell(cells, "latitude"))
    /\ ReadsNonZero(EventCell(cells, "longitude"))
    /\ parseFloat(EventCell(cells, "figure")).t = "num"
    /\ parseFloat(EventCell(cells, "figure")).v > 0
    /\ EventCell(cells, "displacement_date") # ""
    /\ EventCell(cells, "country") = "Palestine"

\* the record is the one the row of these cells gave
IsRecordOf(record, cells) ==
    /\ record.locations_name = EventCell(cells, "locations_name")
    /\ record.displacement_date = EventCell(cells, "displacement_date")
    /\ record.figure = parseFloat(EventCell(cells, "figure"))
    /\ record.latitude = parseFloat(EventCell(cells, "latitude"))
    /\ record.longitude = parseFloat(EventCell(cells, "longitude"))

\* what C16 says of the parsed records and of data, for the rows of the file
ReadAsZero(rows) ==
    /\ Len(locals.records) = Len(rows)
    /\ \A k \in 1..Len(rows) :
          /\ \A c \in {"latitude", "longitude", "figure", "year"} :
                NonNumeric(rows[k], c) => locals.records[k][c] = Num(0)
          /\ (\E c \in {"latitude", "longitude", "figure"} : NonNumeric(rows[k], c))
                => ~\E r \in Range(response.body.data) : IsRecordOf(r, rows[k])
          /\ ValidRow(rows[k])
                => \E r \in Range(response.body.data) : IsRecordOf(r, rows[k])
    /\ Len(response.body.data) = Len(SelectSeq(rows, ValidRow))

\* C16: in the events endpoint a cell of latitude, longitude, figure or year
\* that no number can be read from never fails the load.  When the events file
\* has its header and metadata lines and every data row has the header's
\* length, the response is the success response whatever the numeric cells
\* hold; such a cell is read as 0; a row with such a cell in latitude,
\* longitude or figure is not in data; and every valid row of the file is in
\* data, data holding as many records as the file has valid rows.
C16_NonNumericReadAsZero ==
    (locals.ran /\ HasHeaderAndMetadata /\ ~HasRaggedRow(EventsParsedText))
    => (Succeeded /\ ReadAsZero(EventRows))

\* rows of a witness of C16: three rows, one with a latitude and one with a
\* year that is not a number
MixedRows(rows) ==
    /\ Len(rows) = 3
    /\ \E k \in 1..3 : NonNumeric(rows[k], "latitude")
    /\ \E k \in 1..3 : NonNumeric(rows[k], "year") /\ ValidRow(rows[k])

\* C16 witness: a file with a row whose latitude is not a number, a valid row
\* whose year is not a number and another valid row was answered with
\* success; data holds the two valid rows, one of them with the year 0.
C16_Witness ==
    /\ Succeeded
    /\ HasHeaderAndMetadata
    /\ Len(response.body.data) = 2
    /\ \E r \in Range(response.body.data) : r.year = Num(0)
    /\ MixedRows(EventRows)

====
